---- MODULE Spec2Model ----
(***************************************************************************)
(* Model of galpy/util/bovy_rk.c: the fixed-step Runge-Kutta 4 and 6       *)
(* integrators bovy_rk4 / bovy_rk6, their single-step formulas, save_rk    *)
(* and the step-doubling step-size estimators.                             *)
(*                                                                         *)
(* Arithmetic.  A C double is modelled as an exact rational <<n, d>> in    *)
(* lowest terms with d > 0, or as NaN == <<0, 0>>.  NaN propagates through *)
(* every arithmetic operation and makes every ordered comparison false,    *)
(* as IEEE-754 does.  Rounding is not modelled.                            *)
(*                                                                         *)
(* Tolerances.  exp() and log() are only applied to the tolerances, so a   *)
(* value x of the "log domain" (atol, rtol, rtol*max_val, c, s, scale) is  *)
(* represented by the rational exp(x).                                     *)
(***************************************************************************)
EXTENDS Integers, Sequences, FiniteSets, TLC

(* ------------------------------------------------------------------ *)
(* Bounds of the model                                                *)
(* ------------------------------------------------------------------ *)
MaxDim == 2
MaxNt == 3
MaxTrials == 3

(* ------------------------------------------------------------------ *)
(* double arithmetic                                                  *)
(* ------------------------------------------------------------------ *)
IAbs(n) == IF n < 0 THEN -n ELSE n

RECURSIVE GCD(_, _)
GCD(a, b) == IF b = 0 THEN a ELSE GCD(b, a % b)

NaN == <<0, 0>>

IsNaN(x) == x[2] = 0

Rat(n, d) ==
  IF d = 0 THEN NaN
  ELSE LET g == GCD(IAbs(n), IAbs(d))
           s == IF d < 0 THEN -1 ELSE 1
       IN <<(s * n) \div g, (s * d) \div g>>

Num(n) == <<n, 1>>

Add(x, y) ==
  IF IsNaN(x) \/ IsNaN(y) THEN NaN
  ELSE Rat(x[1] * y[2] + y[1] * x[2], x[2] * y[2])

Neg(x) == IF IsNaN(x) THEN NaN ELSE <<-x[1], x[2]>>

Sub(x, y) == Add(x, Neg(y))

Mul(x, y) ==
  IF IsNaN(x) \/ IsNaN(y) THEN NaN
  ELSE Rat(x[1] * y[1], x[2] * y[2])

Div(x, y) ==
  IF IsNaN(x) \/ IsNaN(y) THEN NaN
  ELSE Rat(x[1] * y[2], x[2] * y[1])

fabs(x) == IF IsNaN(x) THEN NaN ELSE <<IAbs(x[1]), x[2]>>

\* x > y on doubles: false when either side is NaN
Gt(x, y) == ~IsNaN(x) /\ ~IsNaN(y) /\ x[1] * y[2] > y[1] * x[2]

\* x <= y on doubles: false when either side is NaN
Le(x, y) == ~IsNaN(x) /\ ~IsNaN(y) /\ x[1] * y[2] <= y[1] * x[2]

\* (long) x for a finite x: truncation toward zero
ToLong(x) == IF x[1] >= 0 THEN x[1] \div x[2] ELSE -((-x[1]) \div x[2])

RECURSIVE IPow(_, _)
IPow(x, n) == IF n = 0 THEN Num(1) ELSE Mul(x, IPow(x, n - 1))

(* ------------------------------------------------------------------ *)
(* The caller-supplied derivative function func(t, q, a, nargs, args) *)
(* ------------------------------------------------------------------ *)
\* The sample derivative functions a run may be given.  They are piecewise
\* constant in t and q, so that every exact value of a run stays within
\* the integers of the model checker.
\*   const : a_i = c
\*   kick  : a_i = c for t > at, 0 up to at            (discontinuous in t)
\*   bang  : a_i = -c when the next component of q is > 0, else c
\*   nan   : a_i = NaN for t >= at, c before           (non-finite values)
Funcs ==
  { [kind |-> "const", c |-> 1, at |-> 0],
    [kind |-> "kick", c |-> 24, at |-> 0],
    [kind |-> "kick", c |-> 48, at |-> 0],
    [kind |-> "kick", c |-> 1536, at |-> 0],
    [kind |-> "bang", c |-> 12, at |-> 0],
    [kind |-> "nan", c |-> 1, at |-> 1],
    [kind |-> "nan", c |-> 1, at |-> 2] }

Func(f, tt, q) ==
  [i \in 1..Len(q) |->
     CASE f.kind = "const" -> Num(f.c)
       [] f.kind = "kick" -> IF Gt(tt, Num(f.at)) THEN Num(f.c) ELSE Num(0)
       [] f.kind = "bang" ->
            IF Gt(q[(i % Len(q)) + 1], Num(0)) THEN Num(-f.c) ELSE Num(f.c)
       [] OTHER -> IF Le(Num(f.at), tt) THEN NaN ELSE Num(f.c)]

\* one derivative evaluation, as recorded in the log of a single step
Eval(f, tt, q) == [t |-> tt, q |-> q, a |-> Func(f, tt, q)]

(* ------------------------------------------------------------------ *)
(* Single-step formulas                                               *)
(* ------------------------------------------------------------------ *)
\* The buffers a single step works on.  yn1 is the caller's; ynk and
\* k1..k5 are scratch memory, written before they are read; evals is
\* the log of the derivative evaluations made so far.
Frame(yn1) ==
  [yn1 |-> yn1, ynk |-> <<>>, k1 |-> <<>>, k2 |-> <<>>, k3 |-> <<>>,
   k4 |-> <<>>, k5 |-> <<>>, evals |-> <<>>]

\* bovy_rk4_onestep, j-th block of statements ("calculate kj"), j = 1..4
Rk4Stage(j, f, d, yn, tn, h, fr) ==
  CHOOSE r \in
    { [fr EXCEPT
         !.yn1 = [i \in 1..d |->
                    IF j = 1 \/ j = 4
                    THEN Add(fr.yn1[i], Div(Mul(h, e.a[i]), Num(6)))
                    ELSE Add(fr.yn1[i], Div(Mul(h, e.a[i]), Num(3)))],
         !.ynk = IF j = 1 \/ j = 2
                 THEN [i \in 1..d |-> Add(yn[i], Div(Mul(h, e.a[i]), Num(2)))]
                 ELSE IF j = 3
                 THEN [i \in 1..d |-> Add(yn[i], Mul(h, e.a[i]))]
                 ELSE fr.ynk,
         !.evals = Append(fr.evals, e)]
      : e \in { IF j = 1 THEN Eval(f, tn, yn)
                ELSE IF j = 4 THEN Eval(f, Add(tn, h), fr.ynk)
                ELSE Eval(f, Add(tn, Div(h, Num(2))), fr.ynk) } } : TRUE

\* the blocks j..4 of bovy_rk4_onestep, one after the other
RECURSIVE Rk4From(_, _, _, _, _, _, _)
Rk4From(j, f, d, yn, tn, h, fr) ==
  IF j > 4 THEN fr
  ELSE CHOOSE r \in { Rk4From(j + 1, f, d, yn, tn, h, x)
                      : x \in {Rk4Stage(j, f, d, yn, tn, h, fr)} } : TRUE

\* bovy_rk4_onestep: accumulates into yn1; returns the new yn1 and the
\* derivative evaluations made, in order.
bovy_rk4_onestep(f, d, yn, yn1, tn, h) ==
  CHOOSE r \in { [yn1 |-> fr.yn1, evals |-> fr.evals]
                 : fr \in {Rk4From(1, f, d, yn, tn, h, Frame(yn1))} } : TRUE

\* bovy_rk6_onestep, the time of the j-th derivative evaluation
Rk6Time(j, tn, h) ==
  CASE j = 1 -> tn
    [] j = 2 -> Add(tn, Div(h, Num(3)))
    [] j = 3 -> Add(tn, Div(Mul(Num(2), h), Num(3)))
    [] j = 4 -> Add(tn, Div(h, Num(3)))
    [] j = 5 -> Add(tn, Div(h, Num(2)))
    [] j = 6 -> Add(tn, Div(h, Num(2)))
    [] OTHER -> Add(tn, h)

\* bovy_rk6_onestep, the update of yn1 in the j-th block (none for k2)
Rk6Yn1(j, d, h, a, yn1) ==
  CASE j = 1 -> [i \in 1..d |-> Add(yn1[i], Div(Mul(Mul(Num(11), h), a[i]), Num(120)))]
    [] j = 2 -> yn1
    [] j = 3 -> [i \in 1..d |-> Add(yn1[i], Div(Mul(Mul(Num(81), h), a[i]), Num(120)))]
    [] j = 4 -> [i \in 1..d |-> Add(yn1[i], Div(Mul(Mul(Num(81), h), a[i]), Num(120)))]
    [] j = 5 -> [i \in 1..d |-> Sub(yn1[i], Div(Mul(Mul(Num(32), h), a[i]), Num(120)))]
    [] j = 6 -> [i \in 1..d |-> Sub(yn1[i], Div(Mul(Mul(Num(32), h), a[i]), Num(120)))]
    [] OTHER -> [i \in 1..d |-> Add(yn1[i], Div(Mul(Mul(Num(11), h), a[i]), Num(120)))]

\* bovy_rk6_onestep, the buffers k1..k5 after the j-th block: kj = dt * a
Rk6K(j, d, h, a, fr) ==
  CASE j = 1 -> [fr EXCEPT !.k1 = [i \in 1..d |-> Mul(h, a[i])]]
    [] j = 2 -> [fr EXCEPT !.k2 = [i \in 1..d |-> Mul(h, a[i])]]
    [] j = 3 -> [fr EXCEPT !.k3 = [i \in 1..d |-> Mul(h, a[i])]]
    [] j = 4 -> [fr EXCEPT !.k4 = [i \in 1..d |-> Mul(h, a[i])]]
    [] j = 5 -> [fr EXCEPT !.k5 = [i \in 1..d |-> Mul(h, a[i])]]
    [] OTHER -> fr

\* bovy_rk6_onestep, ynk as set at the end of the j-th block from yn and
\* the buffers k1..k5 (none for k7)
Rk6Ynk(j, d, yn, fr) ==
  CASE j = 1 -> [i \in 1..d |-> Add(yn[i], Div(fr.k1[i], Num(3)))]
    [] j = 2 -> [i \in 1..d |-> Add(yn[i], Div(Mul(Num(2), fr.k2[i]), Num(3)))]
    [] j = 3 -> [i \in 1..d |->
                   Add(yn[i],
                       Div(Sub(Add(fr.k1[i], Mul(Num(4), fr.k2[i])), fr.k3[i]),
                           Num(12)))]
    [] j = 4 -> [i \in 1..d |->
                   Add(yn[i],
                       Div(Sub(Sub(Add(Neg(fr.k1[i]), Mul(Num(18), fr.k2[i])),
                                   Mul(Num(3), fr.k3[i])),
                               Mul(Num(6), fr.k4[i])),
                           Num(16)))]
    [] j = 5 -> [i \in 1..d |->
                   Add(yn[i],
                       Div(Add(Sub(Sub(Mul(Num(9), fr.k2[i]), Mul(Num(3), fr.k3[i])),
                                   Mul(Num(6), fr.k4[i])),
                               Mul(Num(4), fr.k5[i])),
                           Num(8)))]
    [] j = 6 -> [i \in 1..d |->
                   Add(yn[i],
                       Div(Sub(Add(Sub(Sub(Mul(Num(9), fr.k1[i]),
                                           Mul(Num(36), fr.k2[i])),
                                       Mul(Num(63), fr.k3[i])),
                                   Mul(Num(72), fr.k4[i])),
                               Mul(Num(64), fr.k5[i])),
                           Num(44)))]
    [] OTHER -> fr.ynk

\* bovy_rk6_onestep, j-th block of statements ("calculate kj"), j = 1..7
Rk6Stage(j, f, d, yn, tn, h, fr) ==
  CHOOSE r \in
    { [g EXCEPT !.ynk = Rk6Ynk(j, d, yn, g)]
      : g \in { [Rk6K(j, d, h, e.a, fr) EXCEPT
                   !.yn1 = Rk6Yn1(j, d, h, e.a, fr.yn1),
                   !.evals = Append(fr.evals, e)]
                : e \in { Eval(f, Rk6Time(j, tn, h),
                               IF j = 1 THEN yn ELSE fr.ynk) } } } : TRUE

\* the blocks j..7 of bovy_rk6_onestep, one after the other
RECURSIVE Rk6From(_, _, _, _, _, _, _)
Rk6From(j, f, d, yn, tn, h, fr) ==
  IF j > 7 THEN fr
  ELSE CHOOSE r \in { Rk6From(j + 1, f, d, yn, tn, h, x)
                      : x \in {Rk6Stage(j, f, d, yn, tn, h, fr)} } : TRUE

\* bovy_rk6_onestep: accumulates into yn1; k1..k5 hold dt times the
\* derivative of stages 1..5.
bovy_rk6_onestep(f, d, yn, yn1, tn, h) ==
  CHOOSE r \in { [yn1 |-> fr.yn1, evals |-> fr.evals]
                 : fr \in {Rk6From(1, f, d, yn, tn, h, Frame(yn1))} } : TRUE

\* save_rk with the loop bound ii < dim-1
save_rk_short(d, src, res, ptr) ==
  [buf |-> [o \in DOMAIN res |->
              IF o >= ptr /\ o < ptr + d - 1 THEN src[o - ptr + 1] ELSE res[o]],
   offs |-> [i \in 1..(d - 1) |-> ptr + i - 1]]

\* save_rk: copies dim values from src to the output buffer at offset ptr
\* (0-based); returns the buffer and the offsets written, in order.
save_rk(d, src, res, ptr) ==
  [buf |-> [o \in DOMAIN res |->
              IF o >= ptr /\ o < ptr + d THEN src[o - ptr + 1] ELSE res[o]],
   offs |-> [i \in 1..d |-> ptr + i - 1]]

(* ------------------------------------------------------------------ *)
(* Step-size estimator: rk4_estimate_step and its RK6 twin            *)
(* (the second definition named rk4_estimate_step, lines 329-401,     *)
(* which bovy_rk6 calls as rk6_estimate_step)                         *)
(* ------------------------------------------------------------------ *)
\* a single step made through one of the two formulas, with what it was
\* entered with, what it evaluated and what it left in yn1
Call(fn, f, d, yn, yn1, tn, h) ==
  CHOOSE c \in
    { [fn |-> fn, yn |-> yn, yn1 |-> yn1, tn |-> tn, dt |-> h,
       out |-> r.yn1, evals |-> r.evals]
      : r \in { IF fn = "rk4" THEN bovy_rk4_onestep(f, d, yn, yn1, tn, h)
                ELSE bovy_rk6_onestep(f, d, yn, yn1, tn, h) } } : TRUE

\* max_val= fabs(*yo); for (ii=1; ii < dim; ii++) if (fabs(yo[ii]) > max_val) ...
RECURSIVE MaxVal(_, _, _)
MaxVal(yo, ii, max_val) ==
  IF ii > Len(yo) THEN max_val
  ELSE MaxVal(yo, ii + 1,
              IF Gt(fabs(yo[ii]), max_val) THEN fabs(yo[ii]) ELSE max_val)

\* exp(rtol * max_val), rtol given by exp(rtol); max_val is a whole number
\* for every initial state of this model
ExpTimes(expRtol, max_val) == IPow(expRtol, max_val[1])

\* exp(s) for c= fmax(atol, rtol*max_val);
\*            s= log(exp(atol-c)+exp(rtol*max_val-c))+c
ExpScale(expAtol, expRtol, max_val) ==
  LET rm == ExpTimes(expRtol, max_val)
      c == IF Gt(rm, expAtol) THEN rm ELSE expAtol
  IN Mul(Add(Div(expAtol, c), Div(rm, c)), c)

\* the norm with scale subtracted once: exp(2.*log(fabs(y1-y2)) - scale)
ErrNorm2_once(d, y1, y2, expScale) ==
  LET term(i) == Div(Mul(fabs(Sub(y1[i], y2[i])), fabs(Sub(y1[i], y2[i]))),
                     expScale[i])
      sum[i \in 0..d] == IF i = 0 THEN Num(0) ELSE Add(sum[i - 1], term(i))
  IN Div(sum[d], Num(d))

\* err*err for  err= sqrt( sum_ii exp(2.*log(fabs(y1-y2)) - 2.*scale) / dim ):
\* exp(2 log|x| - 2 s) = x*x / (exp(s)*exp(s)), and 0 when x = 0
ErrNorm2(d, y1, y2, expScale) ==
  LET term(i) == Div(Mul(fabs(Sub(y1[i], y2[i])), fabs(Sub(y1[i], y2[i]))),
                     Mul(expScale[i], expScale[i]))
      sum[i \in 0..d] == IF i = 0 THEN Num(0) ELSE Add(sum[i - 1], term(i))
  IN Div(sum[d], Num(d))

\* the body of the while loop, entered with the step of the previous trial
EstimateTrial(fn, f, d, yo, to, dtPrev, expScale) ==
  LET h == Div(dtPrev, Num(2))
      half == Div(Div(dtPrev, Num(2)), Num(2))
  IN CHOOSE r \in
       { [dt |-> h, y1 |-> c1.out, y21 |-> cc[1].out, y2 |-> cc[2].out,
          err2 |-> ErrNorm2(d, c1.out, cc[2].out, expScale),
          calls |-> <<c1, cc[1], cc[2]>>]
         : c1 \in {Call(fn, f, d, yo, yo, to, h)},
           cc \in { <<c2, Call(fn, f, d, c2.out, c2.out, Add(to, half), half)>>
                    : c2 \in {Call(fn, f, d, yo, yo, to, half)} } } : TRUE

\* while ( err > 1. )
LoopCond(err2) == Gt(err2, Num(1))

(* ------------------------------------------------------------------ *)
(* Trajectory driver: bovy_rk4 and bovy_rk6                           *)
(* ------------------------------------------------------------------ *)
\* the quotient taken the wrong way round: (long) (dt/init_dt)
Ndt_inverted(init_dt, h) == ToLong(Div(h, init_dt))

\* long ndt= (long) (init_dt/dt);
Ndt(init_dt, h) == ToLong(Div(init_dt, h))

\* the single-step formula of the inner (unsaved) substeps
InnerStep(m) == IF m = "rk4" THEN "rk4" ELSE "rk6"

\* the single-step formula of the last step of an output interval:
\* bovy_rk4_onestep in bovy_rk4 (line 91) and in bovy_rk6 (line 175)
LastStep(m) == IF m = "rk4" THEN "rk4" ELSE "rk4"

\* the inner loop running ndt times: jj < ndt
InnerLoopCond_ndt(j, n) == j < n

\* for (jj=0; jj < (ndt-1); jj++)
InnerLoopCond(j, n) == j < n - 1

\* a driver step that leaves out "reset yn"
DriverStep_noreset(fn, f, d, yn, yn1, to, h) ==
  CHOOSE r \in { [yn1 |-> c.out, to |-> Add(to, h), yn |-> yn, call |-> c]
                 : c \in {Call(fn, f, d, yn, yn1, to, h)} } : TRUE

\* one step of the driver: onestep, to+= dt, and "reset yn"
DriverStep(fn, f, d, yn, yn1, to, h) ==
  CHOOSE r \in { [yn1 |-> c.out, to |-> Add(to, h), yn |-> c.out, call |-> c]
                 : c \in {Call(fn, f, d, yn, yn1, to, h)} } : TRUE

(* ------------------------------------------------------------------ *)
(* State                                                              *)
(* ------------------------------------------------------------------ *)
VARIABLES
  method,     \* "rk4": the run is bovy_rk4; "rk6": bovy_rk6
  func,       \* the derivative function
  dim, yo, nt, t,
  rtol, atol, \* given by exp(rtol), exp(atol)
  result,     \* the output buffer and the dim cells that follow it
  resultPtr,  \* offset of the pointer result in the buffer
  yn, yn1, dt, init_dt, ndt, to, ii, jj,
  est,        \* the frame of the estimator
  pc,
  calls,      \* the single steps made by the last action
  writes,     \* the offsets of the output buffer written so far, in order
  tried,      \* the trials of the estimator: step tested, y1, y2, err*err
  nsteps,     \* single steps made by the trajectory loop
  sinceSave   \* single steps made since the last save_rk

vars == <<method, func, dim, yo, nt, t, rtol, atol, result, resultPtr,
          yn, yn1, dt, init_dt, ndt, to, ii, jj, est, pc,
          calls, writes, tried, nsteps, sinceSave>>

inputs == <<method, func, dim, yo, nt, t, rtol, atol>>

\* a cell of the output buffer that was never written
Unset == <<0, -1>>

\* the values of the initial state, and the grids and tolerances of a run
Yo0 == {Num(1), Num(-2)}
T0s == {Num(0), Num(1)}
Dts == {Num(1), Num(2)}
Tols == { [rtol |-> Num(1), atol |-> Num(2)],
          [rtol |-> Num(2), atol |-> Num(1)],
          [rtol |-> Num(2), atol |-> Num(2)] }

NoEst == [dt |-> Num(0), to |-> Num(0), err2 |-> Num(0), max_val |-> Num(0),
          scale |-> <<>>, y1 |-> <<>>, y21 |-> <<>>, y2 |-> <<>>]

Init ==
  /\ method \in {"rk4", "rk6"}
  /\ func \in Funcs
  /\ dim \in 1..MaxDim
  /\ yo \in [1..dim -> Yo0]
  /\ nt \in 2..MaxNt
  /\ \E t0 \in T0s, h \in Dts :
       t = [i \in 1..nt |-> Add(t0, Mul(Num(i - 1), h))]
  /\ \E tol \in Tols : rtol = tol.rtol /\ atol = tol.atol
  /\ result = [o \in 0..((nt + 1) * dim - 1) |-> Unset]
  /\ resultPtr = 0
  /\ yn = <<>> /\ yn1 = <<>>
  /\ dt = Num(0) /\ init_dt = Num(0) /\ ndt = 0 /\ to = Num(0)
  /\ ii = 0 /\ jj = 0
  /\ est = NoEst
  /\ pc = "start"
  /\ calls = <<>> /\ writes = <<>> /\ tried = <<>>
  /\ nsteps = 0 /\ sinceSave = 0

\* bovy_rk4 / bovy_rk6 up to the first test of the estimator's while loop
Start(m) ==
  /\ pc = "start" /\ method = m
  /\ \E w \in {save_rk(dim, yo, result, resultPtr)} :
     \E mv \in {MaxVal(yo, 2, fabs(yo[1]))} :
     \E s \in {ExpScale(atol, rtol, mv)} :
        /\ result' = w.buf
        /\ writes' = writes \o w.offs
        /\ resultPtr' = resultPtr + dim
        /\ yn' = yo /\ yn1' = yo
        /\ dt' = Sub(t[2], t[1])
        /\ init_dt' = Sub(t[2], t[1])
        /\ est' = [dt |-> Mul(Sub(t[2], t[1]), Num(2)), to |-> t[1],
                   err2 |-> Num(4), max_val |-> mv,
                   scale |-> [i \in 1..dim |-> s],
                   y1 |-> <<>>, y21 |-> <<>>, y2 |-> <<>>]
  /\ pc' = "estimate"
  /\ calls' = <<>>
  /\ UNCHANGED <<inputs, ndt, to, ii, jj, tried, nsteps, sinceSave>>

\* one iteration of the estimator's while loop
Trial(m) ==
  /\ pc = "estimate" /\ method = m
  /\ LoopCond(est.err2)
  /\ Len(tried) < MaxTrials
  /\ \E r \in {EstimateTrial(m, func, dim, yo, est.to, est.dt, est.scale)} :
        /\ est' = [est EXCEPT !.dt = r.dt, !.y1 = r.y1, !.y21 = r.y21,
                              !.y2 = r.y2, !.err2 = r.err2]
        /\ calls' = r.calls
        /\ tried' = Append(tried, [dt |-> r.dt, err2 |-> r.err2,
                                    y1 |-> r.y1, y2 |-> r.y2])
  /\ UNCHANGED <<inputs, result, resultPtr, yn, yn1, dt, init_dt, ndt, to,
                 ii, jj, pc, writes, nsteps, sinceSave>>

\* the estimator returns dt; the driver computes ndt and enters its loops
EstimateReturn(m) ==
  /\ pc = "estimate" /\ method = m
  /\ ~LoopCond(est.err2)
  /\ dt' = est.dt
  /\ ndt' = Ndt(init_dt, est.dt)
  /\ to' = t[1]
  /\ ii' = 0 /\ jj' = 0
  /\ pc' = "integrate"
  /\ calls' = <<>>
  /\ UNCHANGED <<inputs, result, resultPtr, yn, yn1, init_dt, est, writes,
                 tried, nsteps, sinceSave>>

\* one iteration of the inner loop: an unsaved substep
SubStep(m) ==
  /\ pc = "integrate" /\ method = m
  /\ ii < nt - 1
  /\ InnerLoopCond(jj, ndt)
  /\ \E r \in {DriverStep(InnerStep(m), func, dim, yn, yn1, to, dt)} :
        /\ yn1' = r.yn1 /\ to' = r.to /\ yn' = r.yn
        /\ calls' = <<r.call>>
  /\ jj' = jj + 1
  /\ nsteps' = nsteps + 1
  /\ sinceSave' = sinceSave + 1
  /\ UNCHANGED <<inputs, result, resultPtr, dt, init_dt, ndt, ii, est, pc,
                 writes, tried>>

\* the rest of an iteration of the outer loop: the saved step
SaveStep(m) ==
  /\ pc = "integrate" /\ method = m
  /\ ii < nt - 1
  /\ ~InnerLoopCond(jj, ndt)
  /\ \E r \in {DriverStep(LastStep(m), func, dim, yn, yn1, to, dt)} :
     \E w \in {save_rk(dim, r.yn1, result, resultPtr)} :
        /\ yn1' = r.yn1 /\ to' = r.to /\ yn' = r.yn
        /\ calls' = <<r.call>>
        /\ result' = w.buf
        /\ writes' = writes \o w.offs
        /\ resultPtr' = resultPtr + dim
  /\ ii' = ii + 1
  /\ jj' = 0
  /\ nsteps' = nsteps + 1
  /\ sinceSave' = 0
  /\ UNCHANGED <<inputs, dt, init_dt, ndt, est, pc, tried>>

\* the outer loop ends; buffers are freed and the run returns
Return(m) ==
  /\ pc = "integrate" /\ method = m
  /\ ~(ii < nt - 1)
  /\ pc' = "done"
  /\ calls' = <<>>
  /\ UNCHANGED <<inputs, result, resultPtr, yn, yn1, dt, init_dt, ndt, to,
                 ii, jj, est, writes, tried, nsteps, sinceSave>>

Next ==
  \/ Start("rk4") \/ Start("rk6")
  \/ Trial("rk4") \/ Trial("rk6")
  \/ EstimateReturn("rk4") \/ EstimateReturn("rk6")
  \/ SubStep("rk4") \/ SubStep("rk6")
  \/ SaveStep("rk4") \/ SaveStep("rk6")
  \/ Return("rk4") \/ Return("rk6")

Spec == Init /\ [][Next]_vars

(* ------------------------------------------------------------------ *)
(* Properties                                                         *)
(* ------------------------------------------------------------------ *)
Returned == pc \in {"integrate", "done"}

\* sum over the stages j of cs[j] * k_j[i], with k_j = dt * (j-th derivative value)
Comb(c, cs, i) ==
  LET sum[j \in 0..Len(cs)] ==
        IF j = 0 THEN Num(0)
        ELSE Add(sum[j - 1], Mul(Num(cs[j]), Mul(c.dt, c.evals[j].a[i])))
  IN sum[Len(cs)]

\* yn + (sum_j cs[j] * k_j) / den, for every component
Stage(c, cs, den) ==
  [i \in 1..dim |-> Add(c.yn[i], Div(Comb(c, cs, i), Num(den)))]

\* every recorded derivative value is the derivative at the recorded point
EvalsAreFunc(c) ==
  \A j \in 1..Len(c.evals) : c.evals[j].a = Func(func, c.evals[j].t, c.evals[j].q)

C2_Rk6Everywhere ==
  method = "rk6" =>
    \A j \in 1..Len(calls) : calls[j].fn = "rk6" /\ Len(calls[j].evals) = 7

\* the evaluation times of the 7 stages
Rk6Times(c) ==
  << c.tn,
     Add(c.tn, Div(c.dt, Num(3))),
     Add(c.tn, Div(Mul(Num(2), c.dt), Num(3))),
     Add(c.tn, Div(c.dt, Num(3))),
     Add(c.tn, Div(c.dt, Num(2))),
     Add(c.tn, Div(c.dt, Num(2))),
     Add(c.tn, c.dt) >>

\* the intermediate states of the 7 stages
Rk6States(c) ==
  << c.yn,
     Stage(c, <<1>>, 3),
     Stage(c, <<0, 2>>, 3),
     Stage(c, <<1, 4, -1>>, 12),
     Stage(c, <<-1, 18, -3, -6>>, 16),
     Stage(c, <<0, 9, -3, -6, 4>>, 8),
     Stage(c, <<9, -36, 63, 72, -64>>, 44) >>

\* C3: a call of bovy_rk6_onestep entered with yn1 = yn makes 7 derivative
\* evaluations at the times and intermediate states of the tableau (the
\* 7th at yn + (9k1-36k2+63k3+72k4-64k5)/44) and leaves
\* yn1 = yn + (11k1+81k3+81k4-32k5-32k6+11k7)/120.
C3_Rk6Tableau ==
  \A n \in 1..Len(calls) :
    LET c == calls[n]
    IN (c.fn = "rk6" /\ c.yn1 = c.yn) =>
         /\ Len(c.evals) = 7
         /\ EvalsAreFunc(c)
         /\ \A j \in 1..7 : c.evals[j].t = Rk6Times(c)[j]
         /\ \A j \in 1..7 : c.evals[j].q = Rk6States(c)[j]
         /\ c.out = Stage(c, <<11, 0, 81, 81, -32, -32, 11>>, 120)

\* C4: every RK4 single step of bovy_rk4 and of its estimator is entered
\* with yn1 a copy of yn, evaluates the derivative at (tn, yn),
\* (tn+dt/2, yn+dt/2*k1), (tn+dt/2, yn+dt/2*k2), (tn+dt, yn+dt*k3) and
\* leaves yn1 = yn + dt/6*(k1 + 2k2 + 2k3 + k4).
C4_Rk4Step ==
  method = "rk4" =>
    \A n \in 1..Len(calls) :
      LET c == calls[n]
          k(j) == c.evals[j].a
          half == Div(c.dt, Num(2))
      IN /\ c.fn = "rk4"
         /\ c.yn1 = c.yn
         /\ Len(c.evals) = 4
         /\ EvalsAreFunc(c)
         /\ c.evals[1].t = c.tn /\ c.evals[1].q = c.yn
         /\ c.evals[2].t = Add(c.tn, half)
         /\ c.evals[2].q = [i \in 1..dim |-> Add(c.yn[i], Mul(half, k(1)[i]))]
         /\ c.evals[3].t = Add(c.tn, half)
         /\ c.evals[3].q = [i \in 1..dim |-> Add(c.yn[i], Mul(half, k(2)[i]))]
         /\ c.evals[4].t = Add(c.tn, c.dt)
         /\ c.evals[4].q = [i \in 1..dim |-> Add(c.yn[i], Mul(c.dt, k(3)[i]))]
         /\ c.out = [i \in 1..dim |->
                       Add(c.yn[i],
                           Mul(Div(c.dt, Num(6)),
                               Add(Add(Add(k(1)[i], Mul(Num(2), k(2)[i])),
                                       Mul(Num(2), k(3)[i])),
                                   k(4)[i])))]

C4_Witness ==
  /\ method = "rk4" /\ pc = "integrate" /\ Len(calls) = 1
  /\ Len(tried) >= 2 /\ nsteps >= 3 /\ dim >= 2

LastTrial == tried[Len(tried)]

\* C6: when the derivative function produces a non-finite value the run
\* does not accept a step size on a non-finite error estimate and does not
\* return with non-finite values in the output buffer.
C6_NonFiniteAborts ==
  /\ Returned => ~IsNaN(LastTrial.err2)
  /\ pc = "done" => \A o \in 0..(nt * dim - 1) : ~IsNaN(result[o])

\* the order and the shape of the estimator's trials
C7_Trials ==
  /\ \A j \in 1..Len(tried) :
       tried[j].dt = Div(Sub(t[2], t[1]), IPow(Num(2), j - 1))
  /\ (pc = "estimate" /\ Len(calls) = 3) =>
       LET h == LastTrial.dt
           half == Div(h, Num(2))
       IN /\ calls[1].yn = yo /\ calls[1].yn1 = yo
          /\ calls[1].tn = t[1] /\ calls[1].dt = h
          /\ calls[2].yn = yo /\ calls[2].yn1 = yo
          /\ calls[2].tn = t[1] /\ calls[2].dt = half
          /\ calls[3].yn = calls[2].out /\ calls[3].yn1 = calls[2].out
          /\ calls[3].tn = Add(t[1], half) /\ calls[3].dt = half
          /\ LastTrial.y1 = calls[1].out /\ LastTrial.y2 = calls[3].out
          /\ \A n \in 1..3 : calls[n].fn = method
  /\ Returned => dt = LastTrial.dt

\* C7: the estimator tests dt0, dt0/2, dt0/4, ... in that order, each trial
\* from the unmodified yo at t[0] (one step of dt against two of dt/2), and
\* returns the first candidate whose error estimate is <= 1.
C7_FirstAccepted ==
  /\ C7_Trials
  /\ \A j \in 1..(Len(tried) - 1) : ~Le(tried[j].err2, Num(1))
  /\ Returned => Le(LastTrial.err2, Num(1))

\* sum over the components of ((y1_i - y2_i) / div_i)^2
SumSq(tr, div) ==
  LET sum[i \in 0..dim] ==
        IF i = 0 THEN Num(0)
        ELSE Add(sum[i - 1],
                 Mul(Div(Sub(tr.y1[i], tr.y2[i]), div[i]),
                     Div(Sub(tr.y1[i], tr.y2[i]), div[i])))
  IN sum[dim]

\* bounds of log(x) for x >= 1:  2(x-1)/(x+1) <= log(x) <= (x*x-1)/(2x)
LogLower(x) == Div(Mul(Num(2), Sub(x, Num(1))), Add(x, Num(1)))

LogUpper(x) == Div(Sub(Mul(x, x), Num(1)), Mul(Num(2), x))

\* C8 as stated: a candidate is accepted exactly when the root mean square
\* of (y1_i - y2_i)/scale_i is <= 1, scale_i = log(exp(atol) +
\* exp(rtol*max_val)).  est.scale holds exp(scale_i), so scale_i lies
\* between LogLower and LogUpper of it: an accepted candidate has mean
\* square at most 1 against the upper bound, a rejected one more than 1
\* against the lower bound.  Stated for finite error estimates.
C8_AcceptByScale ==
  /\ \A j \in 1..(Len(tried) - 1) :
       ~IsNaN(tried[j].err2) =>
         Gt(SumSq(tried[j], [i \in 1..dim |-> LogLower(est.scale[i])]), Num(dim))
  /\ (Returned /\ ~IsNaN(LastTrial.err2)) =>
       Le(SumSq(LastTrial, [i \in 1..dim |-> LogUpper(est.scale[i])]), Num(dim))

\* the root mean square of (y1_i - y2_i)/exp(scale_i) is not > 1
AccExpScale(tr) == ~Gt(SumSq(tr, est.scale), Num(dim))

\* C8 amended: a candidate is accepted exactly when the root mean square
\* of (y1_i - y2_i)/exp(scale_i) is not greater than 1: a trial is
\* followed by another trial only when it is greater than 1, and by the
\* return of its step only when it is not.
C8_AcceptByExpScale ==
  /\ \A j \in 1..(Len(tried) - 1) : ~AccExpScale(tried[j])
  /\ Returned => AccExpScale(LastTrial)
  /\ (pc = "estimate" /\ tried # <<>>) =>
       (LoopCond(est.err2) <=> ~AccExpScale(LastTrial))

C8_Witness ==
  /\ Returned /\ Len(tried) >= 2 /\ dim >= 2
  /\ ~IsNaN(LastTrial.err2)
  /\ Gt(SumSq(LastTrial, [i \in 1..dim |-> LogUpper(est.scale[i])]), Num(dim))

\* C9: in the trajectory loop of bovy_rk4 the k-th single step is taken at
\* t[0]+k*dt, an output block is written after every ndt-th step and after
\* no other, the internal time at the save of block i is t[0]+i*(t[1]-t[0]),
\* and a run that returns has made (nt-1)*ndt steps.
C9_Trajectory ==
  (method = "rk4" /\ Returned) =>
    /\ ndt >= 1
    /\ to = Add(t[1], Mul(Num(nsteps), dt))
    /\ (pc = "integrate" /\ Len(calls) = 1) =>
         /\ calls[1].tn = Add(t[1], Mul(Num(nsteps - 1), dt))
         /\ calls[1].dt = dt
    /\ Len(writes) = (1 + (nsteps \div ndt)) * dim
    /\ sinceSave = nsteps % ndt
    /\ nsteps <= (nt - 1) * ndt
    /\ sinceSave = 0 =>
         /\ to = Add(t[1], Mul(Num(nsteps \div ndt), Sub(t[2], t[1])))
         /\ to = t[(nsteps \div ndt) + 1]
    /\ pc = "done" => nsteps = (nt - 1) * ndt

C9_Witness ==
  method = "rk4" /\ pc = "done" /\ ndt >= 2 /\ nt >= 3 /\ nsteps >= 4

\* C10: a run returns only when some candidate of the halving sequence has
\* error estimate <= 1, the first such being the one returned; it then
\* writes all nt blocks; while no candidate is accepted only block 0 is
\* written.
C10_Termination ==
  /\ pc = "estimate" => Len(writes) = dim
  /\ Returned =>
       /\ \E j \in 1..Len(tried) : Le(tried[j].err2, Num(1))
       /\ \A j \in 1..(Len(tried) - 1) : ~Le(tried[j].err2, Num(1))
  /\ pc = "done" => Len(writes) = nt * dim

====
